---------------------------- MODULE Spec2Model ----------------------------
(***************************************************************************)
(* Model of the Ministoreservices REST API (routes/api.js, the products    *)
(* controller and main.js): the express router with its rate limiter, the  *)
(* asynchronous resource handlers and the store they call.                 *)
(*                                                                         *)
(* One request is handled in two steps of the event loop: Arrive runs the  *)
(* router, the middleware of the matched route and the handler up to its   *)
(* `await prisma...`; ResumeProduct / ResumeExternal is the store          *)
(* answering and the rest of the handler sending the response.             *)
(*                                                                         *)
(* Product fields description, price and image_url are passed through      *)
(* unchanged by every handler and are left out of the records.             *)
(***************************************************************************)
EXTENDS Bags, FiniteSets, Integers, Sequences, TLC

(***************************************************************************)
(* Bounds of the model.                                                    *)
(***************************************************************************)
\* specification Spec: every route, one client, few requests
MaxHits == 2
MaxInFlight == 1
\* specification SpecRate: one client, more than `max` requests per window,
\* time enough for a second window
MaxRateHits == 12
MaxRateInFlight == 1
MaxRateTicks == 3
\* specification SpecMix: two clients, routes with and without the limiter
MaxMixHits == 11
MaxMixOtherHits == 1
MaxMixInFlight == 1
\* specification SpecConc: a burst of concurrent requests
MaxBurstHits == 11
MaxBurstOtherHits == 1
MaxBurstInFlight == 11

Clients == {"c1", "c2"}
MainClient == "c1"
ProductIds == {1, 2}
\* the (name, category) pairs of the bodies of POST and of PUT
NewFields == {<<"wi", "to">>}
PutFields == {<<"to", "to">>}
Terms == {"w", "to", "x"}
IdInputs == {"1", "2", "q"}

(***************************************************************************)
(* Rate limiter configuration, routes/api.js lines 3-7.                    *)
(***************************************************************************)
windowMs == 1000 * 60 * 3
\* max changed to 11
max_eleven == 10 + 1
max == 10
message == "Too many requests, please try again after 3 minutes"

\* the clock advances one minute at a time
TickMs == 1000 * 60
TicksPerWindow == windowMs \div TickMs


VARIABLES
    now,        \* Date.now(), in ms
    windows,    \* the limiter's store: client key -> rate window
    products,   \* the products table: product_id -> record, or NoRecord
    sessions,   \* clients holding an issued, not yet revoked token
    inflight,   \* bag of requests whose handler awaits the store
    last,       \* the request the latest step finished, and what it sent
                \* (NoLast when that step finished none)
    allowed,    \* per client: requests let through in its current window
    denied,     \* per client: requests answered 429 in its current window
    recent,     \* per client: requests let through in each of the last
                \* TicksPerWindow minutes (the last entry is the current one)
    wasDenied,  \* per client: a request was answered 429 in its previous window
    running     \* the node process is up (main.js: the listening servers)

vars == <<now, windows, products, sessions, inflight, last, allowed, denied, recent,
          wasDenied, running>>

(***************************************************************************)
(* Requests.  A path is the sequence of its segments below the mount point *)
(* /api/v1 (main.js line 20).                                              *)
(***************************************************************************)
NoBody == [product_id |-> 0, id |-> "", name |-> "", category |-> ""]

Kind(m, p, b) == [method |-> m, path |-> p, body |-> b]

ProductKinds ==
    {Kind("POST", <<"products">>, [NoBody EXCEPT !.product_id = i, !.name = f[1], !.category = f[2]]) :
        <<i, f>> \in ProductIds \X NewFields}
    \cup {Kind("PUT", <<"products">>, [NoBody EXCEPT !.id = i, !.name = f[1], !.category = f[2]]) :
        <<i, f>> \in IdInputs \X PutFields}
    \cup {Kind("DELETE", <<"products", i>>, NoBody) : i \in IdInputs}
    \cup {Kind("GET", <<"products", i>>, NoBody) : i \in IdInputs}
    \cup {Kind("GET", <<"products">>, NoBody)}
    \cup {Kind("GET", <<"products", "q", t>>, NoBody) : t \in Terms}

OtherKinds ==
    {Kind("POST", <<"orders">>, NoBody),
     Kind("GET", <<"orders">>, NoBody),
     Kind("PUT", <<"customers">>, NoBody),
     Kind("GET", <<"customers", "1">>, NoBody),
     Kind("GET", <<"customers">>, NoBody),
     Kind("GET", <<"customers", "q", "w">>, NoBody),
     Kind("POST", <<"users">>, NoBody),
     Kind("POST", <<"login">>, NoBody),
     Kind("GET", <<"logout">>, NoBody)}

AllKinds == ProductKinds \cup OtherKinds

RateKinds ==
    {Kind("GET", <<"products">>, NoBody)}

MixKinds ==
    {Kind("GET", <<"products">>, NoBody),
     Kind("POST", <<"orders">>, NoBody),
     Kind("GET", <<"customers">>, NoBody),
     Kind("POST", <<"login">>, NoBody),
     Kind("GET", <<"logout">>, NoBody),
     Kind("POST", <<"users">>, NoBody)}

\* the requests of the second client in SpecMix
MixOtherKinds ==
    {Kind("POST", <<"orders">>, NoBody),
     Kind("POST", <<"users">>, NoBody)}

BurstKinds ==
    {Kind("POST", <<"products">>, [NoBody EXCEPT !.product_id = 1, !.name = "wi", !.category = "to"])}

(***************************************************************************)
(* The router, routes/api.js lines 16-38: the routes in registration       *)
(* order, each with its middleware and its terminal handler.               *)
(***************************************************************************)
Route(m, p, c, h) == [method |-> m, pattern |-> p, chain |-> c, handler |-> h]

Registrations ==
    << Route("POST",   <<"orders">>,              <<"apiLimiter">>,  "createOrder"),
       Route("POST",   <<"products">>,            <<"apiLimiter">>,  "createProduct"),
       Route("PUT",    <<"products">>,            <<"apiLimiter">>,  "updateProduct"),
       Route("DELETE", <<"products", ":id">>,     <<"apiLimiter">>,  "deleteProduct"),
       Route("GET",    <<"products", ":id">>,     <<"apiLimiter">>,  "getProduct"),
       Route("GET",    <<"products">>,            <<"apiLimiter">>,  "getProducts"),
       Route("GET",    <<"products", "q", ":term">>, <<"apiLimiter">>, "getProductsByTerm"),
       Route("POST",   <<"customers">>,           <<"apiLimiter">>,  "createCustomer"),
       Route("PUT",    <<"customers">>,           <<"apiLimiter">>,  "updateCustomer"),
       Route("DELETE", <<"customers", ":id">>,    <<"apiLimiter">>,  "deleteCustomer"),
       Route("GET",    <<"customers", ":id">>,    <<"apiLimiter">>,  "getCustomer"),
       Route("GET",    <<"customers">>,           <<"apiLimiter">>,  "getCustomers"),
       Route("GET",    <<"customers", "q", ":term">>, <<"apiLimiter">>, "getCustomersByTerm"),
       Route("GET",    <<"customers">>,           <<"verifyToken">>, "getCustomers"),
       Route("POST",   <<"users">>,               <<>>,              "createUser"),
       Route("POST",   <<"login">>,               <<>>,              "login"),
       Route("GET",    <<"logout">>,              <<>>,              "logout") >>

\* the two registrations of GET /customers in the other order
router_verifyFirst ==
    [Registrations EXCEPT ![12] = Registrations[14], ![14] = Registrations[12]]

\* the router exported by routes/api.js
router == Registrations

IsParam(seg) == seg \in {":id", ":term"}

\* express matches a route on the method and on every segment of the path:
\* a literal segment must be equal, a named parameter takes any segment
Matches(route, method, path) ==
    /\ route.method = method
    /\ Len(route.pattern) = Len(path)
    /\ \A i \in 1..Len(path) : IsParam(route.pattern[i]) \/ route.pattern[i] = path[i]

\* the first registered route that matches, 0 when none does
MatchIndex(method, path) ==
    LET hits == {i \in 1..Len(router) : Matches(router[i], method, path)}
    IN  IF hits = {} THEN 0 ELSE CHOOSE i \in hits : \A j \in hits : i <= j

(***************************************************************************)
(* Responses.                                                              *)
(***************************************************************************)
\* res.status(status).json(...): kind says what the body is, recs holds the
\* record(s) of a "record" or "list" body, text a message or an error code
Response(status, kind, recs, text) ==
    [status |-> status, kind |-> kind, recs |-> recs, text |-> text]

\* express' answer to a request no route matches
NotFoundPage == Response("404", "page", {}, "Cannot match")

(***************************************************************************)
(* The rate limiter apiLimiter = rateLimit({windowMs, max, message}),      *)
(* routes/api.js lines 3-7, one instance shared by every route that names  *)
(* it, keyed by the client.  The counting is done by the express-rate-limit*)
(* package: a fixed window per client key.                                 *)
(***************************************************************************)
NoWindow == [active |-> FALSE, start |-> 0, count |-> 0]

\* the window of a client after one more hit at time t
Increment(w, t) ==
    IF ~w.active \/ t >= w.start + windowMs
    THEN [active |-> TRUE, start |-> t, count |-> 1]
    ELSE [w EXCEPT !.count = @ + 1]

\* a hit is let through while the window's count is within max
WithinLimit(w) == w.count <= max

\* the limiter letting one request more than max through
apiLimiter_offByOne(req, wins, t) ==
    LET w == Increment(wins[req.client], t)
    IN  [next     |-> w.count <= max + 1,
         response |-> Response("429", "text", {}, message),
         windows  |-> [wins EXCEPT ![req.client] = w]]

\* the limiter starting a new window only once the old one is over by more
\* than a moment
apiLimiter_strict(req, wins, t) ==
    LET old == wins[req.client]
        w == IF ~old.active \/ t > old.start + windowMs
             THEN [active |-> TRUE, start |-> t, count |-> 1]
             ELSE [old EXCEPT !.count = @ + 1]
    IN  [next     |-> WithinLimit(w),
         response |-> Response("429", "text", {}, message),
         windows  |-> [wins EXCEPT ![req.client] = w]]

\* the limiter deciding on the new count without storing it
apiLimiter_notStored(req, wins, t) ==
    LET w == Increment(wins[req.client], t)
    IN  [next     |-> WithinLimit(w),
         response |-> Response("429", "text", {}, message),
         windows  |-> wins]

\* the middleware: [next, response, windows]
apiLimiter(req, wins, t) ==
    LET w == Increment(wins[req.client], t)
    IN  [next     |-> WithinLimit(w),
         response |-> Response("429", "text", {}, message),
         windows  |-> [wins EXCEPT ![req.client] = w]]

(***************************************************************************)
(* authController.verifyToken: passes a request whose token belongs to an  *)
(* active session, answers 401 otherwise.                                  *)
(***************************************************************************)
verifyToken(req, wins, sess) ==
    [next     |-> req.client \in sess,
     response |-> Response("401", "message", {}, "Unauthorized"),
     windows  |-> wins]

RunMiddleware(name, req, wins, sess, t) ==
    IF name = "apiLimiter" THEN apiLimiter(req, wins, t)
    ELSE verifyToken(req, wins, sess)

(***************************************************************************)
(* One route's middleware, run in registration order from position k: each *)
(* either calls next() or sends a response and ends the request.           *)
(* Result: the middleware passed, the response sent (if any) and the       *)
(* limiter's store afterwards.                                             *)
(***************************************************************************)
RECURSIVE RunChain(_, _, _, _, _, _)
RunChain(chain, k, req, wins, sess, t) ==
    IF k > Len(chain)
    THEN [passed |-> chain, sent |-> <<>>, windows |-> wins]
    ELSE LET m == RunMiddleware(chain[k], req, wins, sess, t)
         IN  IF m.next
             THEN RunChain(chain, k + 1, req, m.windows, sess, t)
             ELSE [passed |-> SubSeq(chain, 1, k - 1), sent |-> <<m.response>>,
                   windows |-> m.windows]

\* the handler started whatever the middleware did
Dispatch_noReturn(req, wins, sess, t) ==
    LET i == MatchIndex(req.method, req.path)
    IN  IF i = 0
        THEN [route |-> 0, handler |-> "", passed |-> <<>>, ran |-> <<>>,
              sent |-> <<NotFoundPage>>, windows |-> wins]
        ELSE LET c == RunChain(router[i].chain, 1, req, wins, sess, t)
             IN  [route   |-> i,
                  handler |-> router[i].handler,
                  passed  |-> c.passed,
                  ran     |-> SubSeq(router[i].chain, 1,
                                     IF c.sent = <<>> THEN Len(c.passed) ELSE Len(c.passed) + 1),
                  sent    |-> c.sent,
                  windows |-> c.windows]

\* router.handle: the first matching route's chain, then its handler
\* (handler = "" when the request ended before one started)
Dispatch(req, wins, sess, t) ==
    LET i == MatchIndex(req.method, req.path)
    IN  IF i = 0
        THEN [route |-> 0, handler |-> "", passed |-> <<>>, ran |-> <<>>,
              sent |-> <<NotFoundPage>>, windows |-> wins]
        ELSE LET c == RunChain(router[i].chain, 1, req, wins, sess, t)
             IN  [route   |-> i,
                  handler |-> IF c.sent = <<>> THEN router[i].handler ELSE "",
                  passed  |-> c.passed,
                  ran     |-> SubSeq(router[i].chain, 1,
                                     IF c.sent = <<>> THEN Len(c.passed) ELSE Len(c.passed) + 1),
                  sent    |-> c.sent,
                  windows |-> c.windows]

(***************************************************************************)
(* The store behind prisma.products: unique key product_id.                *)
(***************************************************************************)
NoRecord == [product_id |-> 0, name |-> "", category |-> ""]

Rows(db) == {db[i] : i \in {j \in DOMAIN db : db[j] # NoRecord}}

\* the characters of the strings the model uses
Chars(s) ==
    CASE s = "wi" -> <<"w", "i">>
      [] s = "to" -> <<"t", "o">>
      [] s = "w"  -> <<"w">>
      [] s = "x"  -> <<"x">>
      [] OTHER    -> <<>>

\* the filter {contains: t}: t occurs in s as a substring
Contains(s, t) ==
    LET a == Chars(s)
        b == Chars(t)
    IN  \E i \in 1..(Len(a) - Len(b) + 1) : SubSeq(a, i, i + Len(b) - 1) = b

\* Number(id) of a path segment or body field: NaN unless it is a numeral
Number(s) ==
    CASE s = "1" -> [nan |-> FALSE, n |-> 1]
      [] s = "2" -> [nan |-> FALSE, n |-> 2]
      [] OTHER   -> [nan |-> TRUE, n |-> 0]

Query(op, key, name, category, term) ==
    [op |-> op, key |-> key, name |-> name, category |-> category, term |-> term]

NoResult == [tag |-> "none", code |-> "", recs |-> {}]
Ok(recs) == [tag |-> "ok", code |-> "", recs |-> recs]
Error(code) == [tag |-> "error", code |-> code, recs |-> {}]

\* one query against the table db; down: the store cannot be reached.
\* Result: what the promise settles with, and the table afterwards.
\*   create      rejects with P2002 when the key is taken
\*   update      rejects with P2025 when no record has the key
\*   delete      rejects with P2025 when no record has the key
\*   findUnique  resolves with the record, or with null (recs = {})
\*   findMany    resolves with every record, or with those the filter keeps
\* a key that is NaN is rejected by the client's validation
StoreExec(q, db, down) ==
    LET k == q.key.n
        fresh == [product_id |-> k, name |-> q.name, category |-> q.category]
    IN  IF q.op \notin {"findMany", "search"} /\ q.key.nan
        THEN [result |-> Error("validation"), db |-> db]
        ELSE IF down THEN [result |-> Error("unavailable"), db |-> db]
        ELSE IF q.op = "findMany" THEN [result |-> Ok(Rows(db)), db |-> db]
        ELSE IF q.op = "search"
        THEN [result |-> Ok({r \in Rows(db) : Contains(r.name, q.term) \/ Contains(r.category, q.term)}),
              db |-> db]
        ELSE IF q.op = "create"
        THEN IF db[k] # NoRecord
             THEN [result |-> Error("P2002"), db |-> db]
             ELSE [result |-> Ok({fresh}), db |-> [db EXCEPT ![k] = fresh]]
        ELSE IF q.op = "findUnique"
        THEN [result |-> Ok(Rows(db) \cap {db[k]}), db |-> db]
        ELSE IF db[k] = NoRecord THEN [result |-> Error("P2025"), db |-> db]
        ELSE IF q.op = "update"
        THEN [result |-> Ok({fresh}), db |-> [db EXCEPT ![k] = fresh]]
        ELSE [result |-> Ok({db[k]}), db |-> [db EXCEPT ![k] = NoRecord]]

(***************************************************************************)
(* The products controller.  For each handler: the query it awaits, and    *)
(* the responses it sends once the promise has settled with result.        *)
(***************************************************************************)
ProductHandlers ==
    {"createProduct", "updateProduct", "deleteProduct", "getProducts", "getProduct",
     "getProductsByTerm"}

HandlerQuery(req) ==
    CASE req.handler = "createProduct" ->
            Query("create", [nan |-> FALSE, n |-> req.body.product_id],
                  req.body.name, req.body.category, "")
      [] req.handler = "updateProduct" ->
            Query("update", Number(req.body.id), req.body.name, req.body.category, "")
      [] req.handler = "deleteProduct" ->
            Query("delete", Number(req.path[2]), "", "", "")
      [] req.handler = "getProduct" ->
            Query("findUnique", Number(req.path[2]), "", "", "")
      [] req.handler = "getProductsByTerm" ->
            Query("search", [nan |-> FALSE, n |-> 0], "", "", req.path[3])
      [] OTHER ->
            Query("findMany", [nan |-> FALSE, n |-> 0], "", "", "")

\* try { ...; res.status(200).json(record) } catch (err) { res.status(500).json(err) }
createProduct(result) ==
    IF result.tag = "ok"
    THEN <<Response("200", "record", result.recs, "")>>
    ELSE <<Response("500", "error", {}, result.code)>>

updateProduct(result) ==
    IF result.tag = "ok"
    THEN <<Response("200", "record", result.recs, "")>>
    ELSE <<Response("500", "error", {}, result.code)>>

deleteProduct(result) ==
    IF result.tag = "ok"
    THEN <<Response("200", "record", result.recs, "")>>
    ELSE <<Response("500", "error", {}, result.code)>>

\* What becomes of a handler's rejected promise depends on the versions of
\* express and node the service runs on, which the sources do not pin:
\*   "express4"      express 4 drops the promise; node < 15 only warns of the
\*                   unhandled rejection
\*   "express4exit"  express 4 drops the promise; node >= 15 ends the process
\*                   with exit code 1 on the unhandled rejection
\*   "express5"      express 5 hands the error to its default error handler
Frameworks == {"express4", "express4exit", "express5"}

\* no try/catch: a rejection leaves the handler.  Under express 4 nothing is
\* sent; express 5 sends its own 500 page.
getProducts(result, framework) ==
    IF result.tag = "ok"
    THEN <<Response("200", "list", result.recs, "")>>
    ELSE IF framework = "express5"
         THEN <<Response("500", "page", {}, "Internal Server Error")>>
         ELSE <<>>

\* the rejection that leaves getProducts is unhandled: node >= 15 ends the
\* process.  The other five handlers catch theirs.
Exits(handler, result, framework) ==
    /\ handler = "getProducts"
    /\ result.tag = "error"
    /\ framework = "express4exit"

getProduct(result) ==
    IF result.tag = "ok"
    THEN IF result.recs = {}
         THEN <<Response("404", "message", {}, "Product not found!")>>
         ELSE <<Response("200", "record", result.recs, "")>>
    ELSE <<Response("500", "error", {}, result.code)>>

\* the search testing only `!custs`: an empty array is truthy
getProductsByTerm_noLength(result) ==
    IF result.tag = "ok"
    THEN <<Response("200", "list", result.recs, "")>>
    ELSE <<Response("500", "error", {}, result.code)>>

getProductsByTerm(result) ==
    IF result.tag = "ok"
    THEN IF result.recs = {}
         THEN <<Response("404", "message", {}, "Product not found!")>>
         ELSE <<Response("200", "list", result.recs, "")>>
    ELSE <<Response("500", "error", {}, result.code)>>

Respond(handler, result, framework) ==
    CASE handler = "createProduct"     -> createProduct(result)
      [] handler = "updateProduct"     -> updateProduct(result)
      [] handler = "deleteProduct"     -> deleteProduct(result)
      [] handler = "getProduct"        -> getProduct(result)
      [] handler = "getProductsByTerm" -> getProductsByTerm(result)
      [] OTHER                         -> getProducts(result, framework)

(***************************************************************************)
(* The controllers for customers, orders, users and auth: one store call   *)
(* each, answered per their contract.  Their tables are not modelled: the  *)
(* store's answer is any status the contract allows.                       *)
(***************************************************************************)
ExternalStatuses(handler) ==
    CASE handler \in {"createOrder", "createCustomer", "createUser", "getCustomers"} ->
            {"200", "500"}
      [] handler = "login"  -> {"200", "InvalidCredentials", "500"}
      [] handler = "logout" -> {"200"}
      [] OTHER -> {"200", "404", "500"}

\* login issues a token, logout revokes the client's
SessionsAfter(handler, status, client, sess) ==
    IF handler = "login" /\ status = "200" THEN sess \cup {client}
    ELSE IF handler = "logout" THEN sess \ {client}
    ELSE sess

(***************************************************************************)
(* The state machine.                                                      *)
(***************************************************************************)
NoLast ==
    [client |-> "", method |-> "", path |-> <<>>, route |-> 0, handler |-> "",
     passed |-> <<>>, ran |-> <<>>, calls |-> 0, result |-> NoResult,
     changed |-> FALSE, sent |-> <<>>]

Init ==
    /\ now = 0
    /\ windows = [c \in Clients |-> NoWindow]
    /\ products = [i \in ProductIds |-> NoRecord]
    /\ sessions = {}
    /\ inflight = EmptyBag
    /\ last = NoLast
    /\ allowed = [c \in Clients |-> 0]
    /\ denied = [c \in Clients |-> 0]
    /\ recent = [c \in Clients |-> [i \in 1..TicksPerWindow |-> 0]]
    /\ wasDenied = [c \in Clients |-> FALSE]
    /\ running = TRUE

HitCap(c, mainCap, otherCap) == IF c = MainClient THEN mainCap ELSE otherCap

\* A request of client c arrives: the router matches it, the middleware of
\* the route runs and, unless one of them answered, the handler starts and
\* suspends at its store call.
Arrive(clients, kinds, otherKinds, mainCap, otherCap, maxInFlight) ==
    \E c \in clients, k \in kinds \cup otherKinds :
        LET req == [client |-> c, method |-> k.method, path |-> k.path, body |-> k.body]
            d == Dispatch(req, windows, sessions, now)
            limited == \E i \in 1..Len(d.ran) : d.ran[i] = "apiLimiter"
            fresh == limited /\ (~windows[c].active \/ now >= windows[c].start + windowMs)
            through == limited /\ d.handler # ""
            a == IF fresh THEN 0 ELSE allowed[c]
            n == IF fresh THEN 0 ELSE denied[c]
        IN  /\ running
            /\ k \in IF c = MainClient THEN kinds ELSE otherKinds
            /\ d.handler = "" \/ BagCardinality(inflight) < maxInFlight
            /\ d.windows[c].count <= HitCap(c, mainCap, otherCap)
            /\ windows' = d.windows
            /\ allowed' = [allowed EXCEPT ![c] = IF through THEN a + 1 ELSE a]
            /\ denied' = [denied EXCEPT ![c] = IF limited /\ ~through THEN n + 1 ELSE n]
            /\ recent' = [recent EXCEPT ![c][TicksPerWindow] = IF through THEN @ + 1 ELSE @]
            /\ wasDenied' = [wasDenied EXCEPT ![c] = IF fresh THEN denied[c] > 0 ELSE @]
            /\ IF d.handler = ""
               THEN /\ last' = [client |-> c, method |-> k.method, path |-> k.path,
                                route |-> d.route, handler |-> "", passed |-> d.passed,
                                ran |-> d.ran, calls |-> 0, result |-> NoResult,
                                changed |-> FALSE, sent |-> d.sent]
                    /\ inflight' = inflight
               ELSE /\ inflight' = inflight (+) SetToBag({[client |-> c, method |-> k.method,
                                       path |-> k.path, body |-> k.body, route |-> d.route,
                                       handler |-> d.handler, passed |-> d.passed,
                                       ran |-> d.ran]})
                    /\ last' = NoLast
            /\ UNCHANGED <<now, products, sessions, running>>

Finished(r, calls, result, changed, sent) ==
    [client |-> r.client, method |-> r.method, path |-> r.path, route |-> r.route,
     handler |-> r.handler, passed |-> r.passed, ran |-> r.ran, calls |-> calls,
     result |-> result, changed |-> changed, sent |-> sent]

\* The store answers a products handler, which sends its response.  When
\* the process ends instead, the server is gone: no request in flight is
\* ever answered and the limiter's windows, held in memory, are lost.
ResumeProduct ==
    \E r \in BagToSet(inflight), down \in BOOLEAN, framework \in Frameworks :
        LET out == StoreExec(HandlerQuery(r), products, down)
        IN  /\ running
            /\ r.handler \in ProductHandlers
            /\ products' = out.db
            /\ last' = Finished(r, 1, out.result, out.db # products,
                                Respond(r.handler, out.result, framework))
            /\ IF Exits(r.handler, out.result, framework)
               THEN /\ running' = FALSE
                    /\ inflight' = EmptyBag
                    /\ windows' = [c \in Clients |-> NoWindow]
                    /\ allowed' = [c \in Clients |-> 0]
                    /\ denied' = [c \in Clients |-> 0]
                    /\ UNCHANGED <<now, sessions, recent, wasDenied>>
               ELSE /\ inflight' = inflight (-) SetToBag({r})
                    /\ UNCHANGED <<now, windows, sessions, allowed, denied, recent,
                                   wasDenied, running>>

\* The store answers a handler of another controller.
ResumeExternal ==
    \E r \in BagToSet(inflight) :
        /\ running
        /\ r.handler \notin ProductHandlers
        /\ \E status \in ExternalStatuses(r.handler) :
            /\ sessions' = SessionsAfter(r.handler, status, r.client, sessions)
            /\ last' = Finished(r, 1, NoResult, FALSE,
                                <<Response(status, "external", {}, "")>>)
        /\ inflight' = inflight (-) SetToBag({r})
        /\ UNCHANGED <<now, windows, products, allowed, denied, recent, wasDenied,
                       running>>

\* One minute passes.
Tick(maxTicks) ==
    /\ running
    /\ now < maxTicks * TickMs
    /\ now' = now + TickMs
    /\ recent' = [c \in Clients |->
                    [i \in 1..TicksPerWindow |->
                        IF i < TicksPerWindow THEN recent[c][i + 1] ELSE 0]]
    /\ last' = NoLast
    /\ UNCHANGED <<windows, products, sessions, inflight, allowed, denied, wasDenied,
                   running>>

ArriveAny == Arrive({MainClient}, AllKinds, {}, MaxHits, MaxHits, MaxInFlight)
Next == ArriveAny \/ ResumeProduct \/ ResumeExternal
Spec == Init /\ [][Next]_vars

ArriveRate == Arrive({MainClient}, RateKinds, {}, MaxRateHits, MaxRateHits, MaxRateInFlight)
TickRate == Tick(MaxRateTicks)
NextRate == ArriveRate \/ ResumeProduct \/ TickRate
SpecRate == Init /\ [][NextRate]_vars

ArriveMix == Arrive(Clients, MixKinds, MixOtherKinds, MaxMixHits, MaxMixOtherHits, MaxMixInFlight)
NextMix == ArriveMix \/ ResumeProduct \/ ResumeExternal
SpecMix == Init /\ [][NextMix]_vars

ArriveBurst == Arrive(Clients, BurstKinds, BurstKinds, MaxBurstHits, MaxBurstOtherHits, MaxBurstInFlight)
NextConc == ArriveBurst \/ ResumeProduct
SpecConc == Init /\ [][NextConc]_vars

(***************************************************************************)
(* Properties.                                                             *)
(***************************************************************************)
Min(a, b) == IF a <= b THEN a ELSE b

\* the status of the response a finished request got, "none" without one
Status(l) == IF l.sent = <<>> THEN "none" ELSE l.sent[1].status

RECURSIVE SumSeq(_)
SumSeq(q) == IF q = <<>> THEN 0 ELSE Head(q) + SumSeq(Tail(q))

\* requests of client c let through during the windowMs up to now
InInterval(c) == SumSeq(recent[c])

TooMany == Response("429", "text", {}, message)

\* the latest step ended a request in a middleware of its route
Refused(l) == l.handler = "" /\ l.route > 0

\* this step starts a handler for a request of client c with a path in paths
StartedOn(c, paths) ==
    \E r \in BagToSet(inflight') :
        /\ CopiesIn(r, inflight') > CopiesIn(r, inflight)
        /\ r.client = c
        /\ r.path[1] \in paths

\* this step ends a request of client c with a path in paths in a middleware
RefusedOn(c, paths) ==
    /\ Refused(last')
    /\ last'.client = c
    /\ last'.path[1] \in paths

\* this step finishes the in-flight request r
Finishes(r) ==
    /\ CopiesIn(r, inflight) > 0
    /\ inflight' = inflight (-) SetToBag({r})
    /\ last'.client = r.client /\ last'.method = r.method /\ last'.path = r.path

LimitedPaths == {"orders", "products", "customers"}
OpenPaths == {"users", "login", "logout"}

\* the window of client c is over at the current time (or it has none)
Expired(c) == ~windows[c].active \/ now >= windows[c].start + windowMs

\* C1: within one rate window of a client exactly its first 10 requests to
\* rate-limited routes reach the handler; the 11th and every later one is
\* answered 429 with the configured message.
C1_FirstTenAllowed ==
    /\ windowMs = 3 * 60 * 1000
    /\ \A c \in Clients :
        /\ allowed[c] + denied[c] = windows[c].count
        /\ allowed[c] = Min(windows[c].count, 10)
        /\ denied[c] = IF windows[c].count > 10 THEN windows[c].count - 10 ELSE 0
    /\ Refused(last) =>
        /\ last.sent = <<TooMany>>
        /\ windows[last.client].count > 10
    /\ \A r \in BagToSet(inflight) : windows[r.client].active /\ r.passed = <<"apiLimiter">>

C1_EleventhDenied ==
    /\ windows[MainClient].count = 11
    /\ allowed[MainClient] = 10
    /\ denied[MainClient] = 1
    /\ last.client = MainClient
    /\ Status(last) = "429"

\* C2 as stated: in any interval of length windowMs at most max requests of
\* a client are let through.
C2_AnyInterval == \A c \in Clients : InInterval(c) <= max

\* C2 as amended: at most max requests of a client are let through within
\* one rate window; an interval of length windowMs that spans the end of one
\* window and the start of the next holds at most 2 * max - 1 of them.
C2_PerWindow ==
    \A c \in Clients :
        /\ allowed[c] <= max
        /\ InInterval(c) <= 2 * max - 1

C2_BoundaryBurst ==
    /\ InInterval(MainClient) > max
    /\ allowed[MainClient] <= max
    /\ windows[MainClient].start > 0

\* C3: a request that arrives once windowMs has elapsed since the start of
\* the client's window is let through and starts a new window with count 1,
\* also for a client that was denied before; a request that arrives earlier
\* counts in the running window, and is answered 429 if the client has
\* already been denied in it.
C3_ResetAfterWindow ==
    [][\A c \in Clients :
        (StartedOn(c, LimitedPaths) \/ RefusedOn(c, LimitedPaths)) =>
            IF Expired(c)
            THEN /\ StartedOn(c, LimitedPaths)
                 /\ windows'[c] = [active |-> TRUE, start |-> now, count |-> 1]
            ELSE /\ windows'[c] = [windows[c] EXCEPT !.count = @ + 1]
                 /\ denied[c] > 0 => RefusedOn(c, LimitedPaths) /\ last'.sent = <<TooMany>>]_vars

C3_DeniedThenAllowed ==
    /\ wasDenied[MainClient]
    /\ windows[MainClient].start = windowMs
    /\ windows[MainClient].count = 1
    /\ allowed[MainClient] = 1
    /\ \E r \in BagToSet(inflight) : r.client = MainClient

\* C4: a request whose handler has started passed every middleware of the
\* first route matching it, in registration order; a request answered 429
\* or 401 by a middleware starts no handler, makes no store call and
\* changes no table.
C4_Pipeline ==
    /\ [](\A r \in BagToSet(inflight) :
            /\ r.route = MatchIndex(r.method, r.path)
            /\ r.route > 0
            /\ r.handler = Registrations[r.route].handler
            /\ r.passed = Registrations[r.route].chain
            /\ r.ran = r.passed)
    /\ [](last.handler # "" =>
            /\ last.passed = Registrations[last.route].chain
            /\ last.calls = 1)
    /\ [](Refused(last) =>
            /\ Status(last) \in {"429", "401"}
            /\ last.calls = 0
            /\ ~last.changed)
    /\ [][Refused(last') =>
            /\ inflight' = inflight
            /\ products' = products
            /\ sessions' = sessions]_vars

C4_DeniedBesideHandler ==
    /\ Status(last) = "429"
    /\ last.ran = <<"apiLimiter">>
    /\ last.passed = <<>>
    /\ \E r \in BagToSet(inflight) : r.client = last.client /\ r.passed = <<"apiLimiter">>

\* C5: update and delete answer 404 when the store reports that no record
\* has the key, 500 on any other store error, and leave the table as it was
\* in both cases.
C5_NotFoundIs404 ==
    (last.handler \in {"updateProduct", "deleteProduct"} /\ last.result.tag = "error") =>
        /\ Status(last) = IF last.result.code = "P2025" THEN "404" ELSE "500"
        /\ ~last.changed

\* C6: every products handler answers a failed store call with a 500
\* response carrying the error, and every request that reached a handler
\* gets exactly one response.
C6_FailuresCaught ==
    last.handler \in ProductHandlers =>
        /\ Len(last.sent) = 1
        /\ last.result.tag = "error" =>
                last.sent = <<Response("500", "error", {}, last.result.code)>>

\* the record the table holds for the id of a path, NoRecord when it holds
\* none or the id is no number
Held(id) == IF Number(id).nan THEN NoRecord ELSE products[Number(id).n]

\* the records of the table whose name or category contains the term
Matching(term) ==
    {x \in Rows(products) : Contains(x.name, term) \/ Contains(x.category, term)}

\* C7 as stated: getOne answers 404 exactly when the table holds no record
\* for the key and 200 with the record otherwise; searchByTerm answers 404
\* exactly when no record matches the term and 200 with the matches
\* otherwise.
C7_NotFoundExactly ==
    [][\A r \in BagToSet(inflight) : Finishes(r) =>
        /\ r.handler = "getProduct" =>
            IF Held(r.path[2]) = NoRecord
            THEN Status(last') = "404"
            ELSE last'.sent = <<Response("200", "record", {Held(r.path[2])}, "")>>
        /\ r.handler = "getProductsByTerm" =>
            IF Matching(r.path[3]) = {}
            THEN Status(last') = "404"
            ELSE last'.sent = <<Response("200", "list", Matching(r.path[3]), "")>>]_vars

\* C7 as amended: when its store call succeeds, getOne answers 404 exactly
\* when the table holds no record for the key and 200 with the record
\* otherwise, and searchByTerm answers 404 exactly when no record matches
\* the term, never 200 with an empty list, and 200 with the matches
\* otherwise; when the store call fails (the store is unreachable, the id is
\* no number) both answer 500.
C7_NotFoundWhenStoreAnswers ==
    [][\A r \in BagToSet(inflight) : Finishes(r) =>
        /\ r.handler = "getProduct" =>
            IF last'.result.tag # "ok"
            THEN Status(last') = "500"
            ELSE IF Held(r.path[2]) = NoRecord
            THEN Status(last') = "404"
            ELSE last'.sent = <<Response("200", "record", {Held(r.path[2])}, "")>>
        /\ r.handler = "getProductsByTerm" =>
            IF last'.result.tag # "ok"
            THEN Status(last') = "500"
            ELSE IF Matching(r.path[3]) = {}
            THEN Status(last') = "404"
            ELSE last'.sent = <<Response("200", "list", Matching(r.path[3]), "")>>]_vars

C7_SearchFindsNothing ==
    /\ last.handler = "getProductsByTerm"
    /\ last.result.tag = "ok"
    /\ Status(last) = "404"
    /\ Rows(products) # {}

\* C8: a route matches on its method and its literal segments and the first
\* registered match serves the request: every GET /customers runs
\* apiLimiter and then getCustomers, verifyToken runs for no request and no
\* request is answered 401.
C8_FirstRegistrationWins ==
    \A r \in BagToSet(inflight) \cup {last} :
        /\ r.route > 0 =>
            /\ Matches(Registrations[r.route], r.method, r.path)
            /\ \A j \in 1..(r.route - 1) : ~Matches(Registrations[j], r.method, r.path)
        /\ (r.method = "GET" /\ r.path = <<"customers">>) =>
            /\ r.route = 12
            /\ r.ran = <<"apiLimiter">>
            /\ r.handler = IF r = last /\ Status(last) = "429" THEN "" ELSE "getCustomers"
        /\ \A i \in 1..Len(r.ran) : r.ran[i] # "verifyToken"
        /\ Status(last) # "401"

C8_CustomersWithoutToken ==
    /\ last.method = "GET"
    /\ last.path = <<"customers">>
    /\ last.handler = "getCustomers"
    /\ Status(last) = "200"
    /\ last.client \notin sessions

\* the number of requests of client c that await the store
InFlightOf(c) ==
    BagCardinality([r \in {x \in BagToSet(inflight) : x.client = c} |-> inflight[r]])

\* C9: whatever requests are in flight, every request that went through the
\* limiter is counted in its client's window, and no client has more than
\* max requests let through in one window, also when all of them are in
\* flight at once.
C9_NoLostIncrement ==
    \A c \in Clients :
        /\ windows[c].count = allowed[c] + denied[c]
        /\ allowed[c] <= max
        /\ InFlightOf(c) <= allowed[c]

C9_AllInFlight ==
    /\ InFlightOf(MainClient) = max
    /\ \E r \in BagToSet(inflight) : r.client # MainClient
    /\ Status(last) = "429"
    /\ last.client = MainClient

\* C10: one window per client counts its requests to every rate-limited
\* route, so the 11th of them in a window is denied whatever routes they
\* hit; a client's window changes only with that client's own requests to
\* /orders, /products and /customers; requests to /users, /login and
\* /logout run no limiter and are never answered 429.
C10_SharedPerClient ==
    /\ [](\A c \in Clients :
            /\ windows[c].count = allowed[c] + denied[c]
            /\ allowed[c] = Min(windows[c].count, 10))
    /\ [](\A r \in BagToSet(inflight) \cup {last} :
            /\ (r.route > 0 /\ r.path[1] \in OpenPaths) => r.ran = <<>> /\ r.handler # ""
            /\ (r.route > 0 /\ r.path[1] \in LimitedPaths) => r.ran = <<"apiLimiter">>)
    /\ [](Status(last) = "429" => last.path[1] \in LimitedPaths)
    /\ [][\A c \in Clients :
            windows'[c] # windows[c] =>
                StartedOn(c, LimitedPaths) \/ RefusedOn(c, LimitedPaths)]_vars

=============================================================================
